---- MODULE Spec2Model ----
(***************************************************************************)
(* Container benchmark harness: the Bencher (include/bench.hpp), the       *)
(* benchmark families and the driver (bench.cpp), and the arena allocator  *)
(* the linear_allocator_wrapper builds on (short_alloc.hpp).               *)
(***************************************************************************)
EXTENDS Integers, Sequences, FiniteSets, TLC

(***************************************************************************)
(* Bounds of the model.                                                    *)
(***************************************************************************)
\* largest number of clock ticks one run of a policy chain takes
MaxDur == 2
\* largest number of nodes a policy chain allocates in one repetition
MaxNodes == 1
\* a functor is started for the first MaxInitType types of a family ...
MaxInitType == 1
\* ... and the first MaxInitSize sizes of its size list
MaxInitSize == 1
\* the capacity, in units of the alignment, of the arena explored on its own
ArenaWords == 3
\* the largest request to that arena, in units of the alignment ...
MaxWords == 2
\* ... whole, or MaxSlack bytes short of it and in need of rounding up
MaxSlack == 1
\* the most heap blocks the fallback hands out at a time
MaxHeap == 1

(***************************************************************************)
(* Program constants.                                                      *)
(***************************************************************************)
REPEAT == 7
\* sizeof(std::size_t) == sizeof(uintptr_t), the machine word
WordSize == 8
\* the number of members of SizesType
NSizes == 10

(***************************************************************************)
(* The value-type catalog.                                                 *)
(***************************************************************************)
AllTypes ==
    << "TrivialSmall", "TrivialMedium", "TrivialLarge", "TrivialHuge",
       "TrivialMonster", "NonTrivialStringMovable",
       "NonTrivialStringMovableNoExcept", "NonTrivialArray32" >>

CrunchTypes == << "TrivialSmall", "TrivialMedium" >>

\* sizeof(T); the two string-holding classes are a std::string and a size_t
SizeOf(T) ==
    CASE T = "TrivialSmall"   -> 8
      [] T = "TrivialMedium"  -> 32
      [] T = "TrivialLarge"   -> 128
      [] T = "TrivialHuge"    -> 1024
      [] T = "TrivialMonster" -> 4 * 1024
      [] T = "NonTrivialArray32" -> 32
      [] OTHER -> 32 + WordSize

is_small(T) == SizeOf(T) <= WordSize

(***************************************************************************)
(* The benchmark families: unit, size list and combinations.               *)
(***************************************************************************)
SizesFrom(step) == [k \in 1..NSizes |-> step * k]

Combo(c, w, p, chain, label) ==
    [container |-> c, wrapper |-> w, create |-> p, chain |-> chain, label |-> label]

\* the four combinations most families share, for a creation policy and a chain
Four(p, chain) ==
    << Combo("vector", "std", p, chain, "vector"),
       Combo("list", "std", p, chain, "list"),
       Combo("deque", "std", p, chain, "deque"),
       Combo("list", "linear", p, chain, "list_linear") >>

\* fill_front and emplace_front: the vector only for a small type
FrontCombos(T, chain) ==
    (IF is_small(T) THEN << Combo("vector", "std", "Empty", chain, "vector") >> ELSE << >>)
    \o << Combo("list", "std", "Empty", chain, "list"),
          Combo("deque", "std", "Empty", chain, "deque"),
          Combo("list", "linear", "Empty", chain, "list_linear") >>

bench_fill_back(T) ==
    [name |-> "fill_back", unit |-> "us", sizes |-> SizesFrom(100000),
     combos |->
       << Combo("vector", "std", "Empty", <<"FillBack">>, "vector"),
          Combo("list", "std", "Empty", <<"FillBack">>, "list"),
          Combo("deque", "std", "Empty", <<"FillBack">>, "deque"),
          Combo("vector", "std", "Empty", <<"ReserveSize", "FillBack">>, "vector_reserve"),
          Combo("list", "linear", "Empty", <<"FillBack">>, "list_linear"),
          Combo("vector", "std", "Empty", <<"FillBackInserter">>, "vector_inserter"),
          Combo("list", "std", "Empty", <<"FillBackInserter">>, "list_inserter"),
          Combo("deque", "std", "Empty", <<"FillBackInserter">>, "deque_inserter"),
          Combo("list", "linear", "Empty", <<"FillBackInserter">>, "list_inserter_linear") >>]

bench_emplace_back(T) ==
    [name |-> "emplace_back", unit |-> "us", sizes |-> SizesFrom(100000),
     combos |-> Four("Empty", <<"EmplaceBack">>)]

bench_fill_front(T) ==
    [name |-> "fill_front", unit |-> "us", sizes |-> SizesFrom(10000),
     combos |-> FrontCombos(T, <<"FillFront">>)]

bench_emplace_front(T) ==
    [name |-> "emplace_front", unit |-> "us", sizes |-> SizesFrom(10000),
     combos |-> FrontCombos(T, <<"EmplaceFront">>)]

bench_linear_search(T) ==
    [name |-> "linear_search", unit |-> "us", sizes |-> SizesFrom(1000),
     combos |-> Four("FilledRandom", <<"Find">>)]

bench_random_insert(T) ==
    [name |-> "random_insert", unit |-> "ms", sizes |-> SizesFrom(10000),
     combos |-> Four("FilledRandom", <<"Insert">>)]

bench_random_remove(T) ==
    [name |-> "random_remove", unit |-> "ms", sizes |-> SizesFrom(10000),
     combos |-> Four("FilledRandom", <<"Erase">>)]

bench_sort(T) ==
    [name |-> "sort", unit |-> "ms", sizes |-> SizesFrom(100000),
     combos |-> Four("FilledRandom", <<"Sort">>)]

bench_destruction(T) ==
    [name |-> "destruction", unit |-> "us", sizes |-> SizesFrom(100000),
     combos |-> Four("SmartFilled", <<"SmartDelete">>)]

bench_number_crunching(T) ==
    [name |-> "number_crunching", unit |-> "ms", sizes |-> SizesFrom(10000),
     combos |-> Four("Empty", <<"RandomSortedInsert">>)]

\* faulty variant: number_crunching is run over the whole catalog like the other families
bench_all_crunching_all(Types) ==
    << [family |-> "fill_back", types |-> Types],
       [family |-> "emplace_back", types |-> Types],
       [family |-> "fill_front", types |-> Types],
       [family |-> "emplace_front", types |-> Types],
       [family |-> "linear_search", types |-> Types],
       [family |-> "random_insert", types |-> Types],
       [family |-> "random_remove", types |-> Types],
       [family |-> "sort", types |-> Types],
       [family |-> "destruction", types |-> Types],
       [family |-> "number_crunching", types |-> Types] >>

\* bench_all: the families in call order, each with the types it is run for
bench_all(Types) ==
    << [family |-> "fill_back", types |-> Types],
       [family |-> "emplace_back", types |-> Types],
       [family |-> "fill_front", types |-> Types],
       [family |-> "emplace_front", types |-> Types],
       [family |-> "linear_search", types |-> Types],
       [family |-> "random_insert", types |-> Types],
       [family |-> "random_remove", types |-> Types],
       [family |-> "sort", types |-> Types],
       [family |-> "destruction", types |-> Types],
       [family |-> "number_crunching", types |-> CrunchTypes] >>

\* main: bench_all over the catalog
Plan == bench_all(AllTypes)

\* Benchmark<T>: the family named f, for the value type T
Benchmark(f, T) ==
    CASE f = "fill_back" -> bench_fill_back(T)
      [] f = "emplace_back" -> bench_emplace_back(T)
      [] f = "fill_front" -> bench_fill_front(T)
      [] f = "emplace_front" -> bench_emplace_front(T)
      [] f = "linear_search" -> bench_linear_search(T)
      [] f = "random_insert" -> bench_random_insert(T)
      [] f = "random_remove" -> bench_random_remove(T)
      [] f = "sort" -> bench_sort(T)
      [] f = "destruction" -> bench_destruction(T)
      [] OTHER -> bench_number_crunching(T)

(***************************************************************************)
(* State.                                                                  *)
(***************************************************************************)
VARIABLES
    at,          \* where the driver is: family f, type t, combination c, size s
    phase,       \* the driver's position: "types", "bench", "output", "exit"
    pc,          \* the functor's position inside operator()
    i,           \* the repetition counter of the functor's loop
    duration,    \* the functor's accumulated duration
    now,         \* the reading of Clock::now()
    t0,          \* the start timestamp of the current repetition
    wrapper,     \* the loop's allocator wrapper, or NoWrapper
    container,   \* the loop's container, or NoContainer
    arenas,      \* the arenas alive, by identity
    made,        \* how many arenas have been constructed
    graphs,      \* the report sink: the graphs registered, each with its results
    rendered,    \* whether graphs::output has been called
    cleans,      \* how many times CreatePolicy::clean has been called
    measured,    \* history: the durations measured by the current functor, summed
    nmeasured,   \* history: how many durations the current functor has measured
    released,    \* history: how many wrappers the current functor has destroyed
    runs,        \* history: how many times the current functor has run its chain
    live,        \* the arena spans handed out and not yet deallocated
    heap,        \* the heap blocks handed out by the fallback and not yet freed
    last,        \* history: the last allocator operation
    pace         \* a whole driver run: the ticks every run of a chain takes

vars ==
    << at, phase, pc, i, duration, now, t0, wrapper, container, arenas, made,
       graphs, rendered, cleans, measured, nmeasured, released, runs, live, heap, last,
       pace >>

NoWrapper == [kind |-> "none", arena |-> 0]
NoContainer == [kind |-> "none", alloc |-> 0, create |-> "none", applied |-> << >>]
NoOp ==
    [op |-> "none", p |-> [heap |-> FALSE, addr |-> 0], n |-> 0, before |-> 0,
     roundtrip |-> FALSE, origin |-> 0, exhausted |-> FALSE]

(***************************************************************************)
(* What the driver's position selects.                                     *)
(***************************************************************************)
FamilyAt(a) == Plan[a.f].family
TypeAt(a) == Plan[a.f].types[a.t]
BenchAt(a) == Benchmark(FamilyAt(a), TypeAt(a))
ComboAt(a) == BenchAt(a).combos[a.c]
SizeAt(a) == BenchAt(a).sizes[a.s]

(***************************************************************************)
(* The report sink (graphs.hpp).                                           *)
(***************************************************************************)
\* new_graph<T>(testName, unit): a new graph, which becomes the current one
new_graph(g, testName, T, unit) ==
    Append(g, [title |-> << testName, T >>, unit |-> unit, results |-> << >>])

\* graphs::new_result(serie, group, value): one more point of the current graph
new_result(g, serie, group, value) ==
    [g EXCEPT ![Len(g)].results =
        Append(@, [serie |-> serie, group |-> group, value |-> value])]

(***************************************************************************)
(* The arena allocator (short_alloc.hpp).                                  *)
(***************************************************************************)
\* alignof(NodeSize), the alignment the Bencher gives its arenas
Align == 8

align_up(n) == ((n + (Align - 1)) \div Align) * Align

InBuffer(addr) == [heap |-> FALSE, addr |-> addr]
OnHeap(addr) == [heap |-> TRUE, addr |-> addr]

pointer_in_buffer(a, p) == ~p.heap /\ 0 <= p.addr /\ p.addr <= a.cap

fits(a, n) == a.cap - a.cursor >= align_up(n)

\* faulty variant: the cursor is advanced before the bounds check, also when it fails
allocate_bumping(a, n, h) ==
    IF fits(a, n)
    THEN [arena |-> [a EXCEPT !.cursor = @ + align_up(n)], p |-> InBuffer(a.cursor)]
    ELSE [arena |-> [a EXCEPT !.cursor = @ + align_up(n)], p |-> OnHeap(h)]

\* arena::allocate(n): n bytes; h is the address operator new would return
allocate(a, n, h) ==
    IF fits(a, n)
    THEN [arena |-> [a EXCEPT !.cursor = @ + align_up(n)], p |-> InBuffer(a.cursor)]
    ELSE [arena |-> a, p |-> OnHeap(h)]

\* faulty variant: the top-of-stack test forgets to round the size up
deallocate_unrounded(a, p, n) ==
    IF pointer_in_buffer(a, p)
    THEN IF p.addr + n = a.cursor THEN [a EXCEPT !.cursor = p.addr] ELSE a
    ELSE a

\* arena::deallocate(p, n)
deallocate(a, p, n) ==
    IF pointer_in_buffer(a, p)
    THEN IF p.addr + align_up(n) = a.cursor THEN [a EXCEPT !.cursor = p.addr] ELSE a
    ELSE a

\* linear_allocator_wrapper(): arena_() and an allocator view bound to it
linear_allocator_wrapper(id, cap, rep) ==
    [wrapper |-> [kind |-> "linear", arena |-> id],
     arena |-> [cap |-> cap, cursor |-> 0, rep |-> rep]]

\* std_allocator_wrapper: a std::allocator and no arena
std_allocator_wrapper == [kind |-> "std", arena |-> 0]

(***************************************************************************)
(* The policies (policies.hpp) and the policy chain runner.                *)
(***************************************************************************)
\* CreatePolicy<ContainerType>::make(N, allocator)
make(policy, kind, alloc) ==
    [kind |-> kind, alloc |-> alloc, create |-> policy, applied |-> << >>]

\* whether a creation policy fills the container it makes
prefills(policy) == policy \in {"FilledRandom", "SmartFilled"}

\* Test<Container>::run(container, size)
apply(policy, c, size) ==
    [c EXCEPT !.applied = Append(@, [policy |-> policy, size |-> size])]

\* faulty variant: the rest of the chain runs before its head
RECURSIVE run_reversed(_, _, _)
run_reversed(chain, c, size) ==
    IF chain = << >>
    THEN c
    ELSE apply(Head(chain), run_reversed(Tail(chain), c, size), size)

RECURSIVE run(_, _, _)
run(chain, c, size) ==
    IF chain = << >>
    THEN c
    ELSE run(Tail(chain), apply(Head(chain), c, size), size)

\* the container's allocator serving k list nodes of `bytes` bytes each
RECURSIVE allocate_nodes(_, _, _)
allocate_nodes(a, k, bytes) ==
    IF k = 0 THEN a ELSE allocate_nodes(allocate(a, bytes, 0).arena, k - 1, bytes)

(***************************************************************************)
(* Bencher::functor<N>::operator()(type), step by step.                    *)
(***************************************************************************)
NodeSize(T) == SizeOf(T) + 2 * WordSize
\* sizeof(NodeSize) * (N + 1000): NodeSize is a size_t
BufferSize(N) == WordSize * (N + 1000)

\* line 78: auto wrapper = WrapperType();
ConstructWrapper ==
    /\ phase = "bench" /\ pc = "loop" /\ i < REPEAT
    /\ IF ComboAt(at).wrapper = "linear"
       THEN LET w == linear_allocator_wrapper(made + 1, BufferSize(SizeAt(at)), i)
            IN /\ wrapper' = w.wrapper
               /\ arenas' = [id \in DOMAIN arenas \cup {made + 1} |->
                               IF id = made + 1 THEN w.arena ELSE arenas[id]]
               /\ made' = made + 1
       ELSE /\ wrapper' = std_allocator_wrapper
            /\ UNCHANGED << arenas, made >>
    /\ pc' = "make"
    /\ UNCHANGED << at, phase, rendered, i, duration, now, t0, container, graphs,
                    cleans, measured, nmeasured, released, runs, live, heap, last, pace >>

\* line 79: auto container = CreatePolicy<ContainerType>::make(N, wrapper.allocator);
Make ==
    /\ phase = "bench" /\ pc = "make"
    /\ container' = make(ComboAt(at).create, ComboAt(at).container, wrapper.arena)
    /\ IF wrapper.arena \in DOMAIN arenas /\ prefills(ComboAt(at).create)
       THEN \E k \in 0..MaxNodes :
              arenas' = [arenas EXCEPT ![wrapper.arena] =
                           allocate_nodes(@, k, NodeSize(TypeAt(at)))]
       ELSE UNCHANGED arenas
    /\ pc' = "t0"
    /\ UNCHANGED << at, phase, rendered, i, duration, now, t0, wrapper, made,
                    graphs, cleans, measured, nmeasured, released, runs, live, heap, last, pace >>

\* line 81: Clock::time_point t0 = Clock::now();
T0 ==
    /\ phase = "bench" /\ pc = "t0"
    /\ t0' = now
    /\ pc' = "run"
    /\ UNCHANGED << at, phase, rendered, i, duration, now, wrapper, container, arenas,
                    made, graphs, cleans, measured, nmeasured, released, runs, live, heap, last, pace >>

\* line 83: run<TestPolicy...>(container, N); it takes d ticks and k list nodes
RunChain ==
    /\ phase = "bench" /\ pc = "run"
    /\ container' = run(ComboAt(at).chain, container, SizeAt(at))
    /\ \E d \in 0..MaxDur : now' = now + d
    /\ IF container.alloc \in DOMAIN arenas
       THEN \E k \in 0..MaxNodes :
              arenas' = [arenas EXCEPT ![container.alloc] =
                           allocate_nodes(@, k, NodeSize(TypeAt(at)))]
       ELSE UNCHANGED arenas
    /\ runs' = runs + 1
    /\ pc' = "t1"
    /\ UNCHANGED << at, phase, rendered, i, duration, t0, wrapper, made, graphs,
                    cleans, measured, nmeasured, released, live, heap, last, pace >>

\* faulty variant: the elapsed time is assigned, not added
Accumulate_overwrite ==
    /\ phase = "bench" /\ pc = "t1"
    /\ duration' = now - t0
    /\ measured' = measured + (now - t0)
    /\ nmeasured' = nmeasured + 1
    /\ pc' = "end"
    /\ UNCHANGED << at, phase, rendered, i, now, t0, wrapper, container, arenas, made,
                    graphs, cleans, released, runs, live, heap, last, pace >>

\* faulty variant: the block holding the wrapper and the container closes before t1 is taken
Accumulate_afterRelease ==
    /\ phase = "bench" /\ pc = "t1"
    /\ container' = NoContainer
    /\ wrapper' = NoWrapper
    /\ arenas' = [id \in DOMAIN arenas \ {wrapper.arena} |-> arenas[id]]
    /\ released' = released + 1
    /\ duration' = duration + (now - t0)
    /\ measured' = measured + (now - t0)
    /\ nmeasured' = nmeasured + 1
    /\ pc' = "end"
    /\ UNCHANGED << at, phase, rendered, i, now, t0, made, graphs, cleans, runs,
                    live, heap, last, pace >>

\* lines 85-86: t1 = Clock::now(); duration += duration_cast<DurationUnit>(t1 - t0).count();
Accumulate ==
    /\ phase = "bench" /\ pc = "t1"
    /\ duration' = duration + (now - t0)
    /\ measured' = measured + (now - t0)
    /\ nmeasured' = nmeasured + 1
    /\ pc' = "end"
    /\ UNCHANGED << at, phase, rendered, i, now, t0, wrapper, container, arenas, made,
                    graphs, cleans, released, runs, live, heap, last, pace >>

\* faulty variant: clean() is called inside the loop, at the end of every repetition
EndScope_cleaning ==
    /\ phase = "bench" /\ pc = "end"
    /\ container' = NoContainer
    /\ wrapper' = NoWrapper
    /\ arenas' = [id \in DOMAIN arenas \ {wrapper.arena} |-> arenas[id]]
    /\ released' = released + 1
    /\ cleans' = cleans + 1
    /\ i' = i + 1
    /\ pc' = "loop"
    /\ UNCHANGED << at, phase, rendered, duration, now, t0, made, graphs,
                    measured, nmeasured, runs, live, heap, last, pace >>

\* faulty variant: the arena outlives the loop body (a wrapper that does not own its arena)
EndScope_keepArena ==
    /\ phase = "bench" /\ pc = "end"
    /\ container' = NoContainer
    /\ wrapper' = NoWrapper
    /\ released' = released + 1
    /\ i' = i + 1
    /\ pc' = "loop"
    /\ UNCHANGED << at, phase, rendered, duration, now, t0, arenas, made, graphs, cleans,
                    measured, nmeasured, runs, live, heap, last, pace >>

\* line 87: the end of the loop body destroys the container, then the wrapper; ++i
EndScope ==
    /\ phase = "bench" /\ pc = "end"
    /\ container' = NoContainer
    /\ wrapper' = NoWrapper
    /\ arenas' = [id \in DOMAIN arenas \ {wrapper.arena} |-> arenas[id]]
    /\ released' = released + 1
    /\ i' = i + 1
    /\ pc' = "loop"
    /\ UNCHANGED << at, phase, rendered, duration, now, t0, made, graphs, cleans,
                    measured, nmeasured, runs, live, heap, last, pace >>

\* duration / REPEAT, on std::size_t
Mean(d) == d \div REPEAT

\* line 89: graphs::new_result(type, std::to_string(N), duration / REPEAT);
Report ==
    /\ phase = "bench" /\ pc = "loop" /\ i >= REPEAT
    /\ graphs' = new_result(graphs, ComboAt(at).label, SizeAt(at), Mean(duration))
    /\ pc' = "clean"
    /\ UNCHANGED << at, phase, rendered, i, duration, now, t0, wrapper, container,
                    arenas, made, cleans, measured, nmeasured, released, runs, live, heap, last, pace >>

\* line 90: CreatePolicy<ContainerType>::clean();
Clean ==
    /\ phase = "bench" /\ pc = "clean"
    /\ cleans' = cleans + 1
    /\ pc' = "done"
    /\ UNCHANGED << at, phase, rendered, i, duration, now, t0, wrapper, container,
                    arenas, made, graphs, measured, nmeasured, released, runs, live, heap, last, pace >>

\* the functor's locals on entry to operator()
FunctorEntry ==
    /\ pc = "loop" /\ i = 0 /\ duration = 0 /\ t0 = 0
    /\ wrapper = NoWrapper /\ container = NoContainer
    /\ measured = 0 /\ nmeasured = 0 /\ released = 0 /\ runs = 0

\* one functor<N>()(type) call, on the graph its family has just registered
Init ==
    /\ at \in { a \in [f : 1..Len(Plan), t : 1..MaxInitType, c : 1..9, s : 1..MaxInitSize] :
                  /\ a.t <= Len(Plan[a.f].types)
                  /\ a.c <= Len(BenchAt(a).combos)
                  /\ a.s <= NSizes }
    /\ phase = "bench"
    /\ FunctorEntry
    /\ now = 0
    /\ arenas = << >> /\ made = 0
    /\ graphs = new_graph(<< >>, FamilyAt(at), TypeAt(at), BenchAt(at).unit)
    /\ rendered = FALSE /\ cleans = 0
    /\ live = {} /\ heap = {} /\ last = NoOp
    /\ pace = 0

Next ==
    \/ ConstructWrapper
    \/ Make
    \/ T0
    \/ RunChain
    \/ Accumulate
    \/ EndScope
    \/ Report
    \/ Clean

Spec == Init /\ [][Next]_vars

(***************************************************************************)
(* The arena on its own: a linear_allocator_wrapper and the calls a         *)
(* container makes on its allocator, in any order.                         *)
(***************************************************************************)
\* the byte counts n * sizeof(T) asked of the arena
Requests == { Align * w - r : w \in 1..MaxWords, r \in {0, MaxSlack} }

TheArena == arenas[wrapper.arena]

\* short_alloc::allocate(n), as the arena's allocate of the bytes
Allocate ==
    /\ phase = "alloc"
    /\ \E n \in Requests :
         \E h \in (IF fits(TheArena, n)
                   THEN {0}
                   ELSE { x \in 1..MaxHeap : \A b \in heap : b.p.addr # x }) :
           LET r == allocate(TheArena, n, h)
           IN /\ arenas' = [arenas EXCEPT ![wrapper.arena] = r.arena]
              /\ live' = (IF r.p.heap THEN live ELSE live \cup {[p |-> r.p, n |-> n]})
              /\ heap' = (IF r.p.heap THEN heap \cup {[p |-> r.p, n |-> n]} ELSE heap)
              /\ last' = [op |-> "allocate", p |-> r.p, n |-> n,
                          before |-> TheArena.cursor, roundtrip |-> FALSE,
                          origin |-> TheArena.cursor,
                          exhausted |-> (last.exhausted \/ r.p.heap)]
    /\ UNCHANGED << at, phase, rendered, pc, i, duration, now, t0, wrapper, container,
                    made, graphs, cleans, measured, nmeasured, released, runs, pace >>

\* short_alloc::deallocate(p, n) of a block handed out earlier, with its size
Deallocate ==
    /\ phase = "alloc"
    /\ \E b \in live \cup heap :
         LET rt == last.op = "allocate" /\ last.p = b.p /\ last.n = b.n
         IN /\ arenas' = [arenas EXCEPT ![wrapper.arena] = deallocate(@, b.p, b.n)]
            /\ live' = live \ {b}
            /\ heap' = heap \ {b}
            /\ last' = [op |-> "deallocate", p |-> b.p, n |-> b.n,
                        before |-> TheArena.cursor, roundtrip |-> rt,
                        origin |-> (IF rt THEN last.before ELSE TheArena.cursor),
                        exhausted |-> last.exhausted]
    /\ UNCHANGED << at, phase, rendered, pc, i, duration, now, t0, wrapper, container,
                    made, graphs, cleans, measured, nmeasured, released, runs, pace >>

\* a linear_allocator_wrapper just constructed, its arena of ArenaWords * Align bytes
InitArena ==
    /\ at = [f |-> 1, t |-> 1, c |-> 5, s |-> 1]
    /\ phase = "alloc"
    /\ pc = "make" /\ i = 0 /\ duration = 0 /\ t0 = 0 /\ now = 0
    /\ LET w == linear_allocator_wrapper(1, ArenaWords * Align, 0)
       IN wrapper = w.wrapper /\ arenas = << w.arena >>
    /\ made = 1
    /\ container = NoContainer
    /\ measured = 0 /\ nmeasured = 0 /\ released = 0 /\ runs = 0
    /\ graphs = << >> /\ rendered = FALSE /\ cleans = 0
    /\ live = {} /\ heap = {} /\ last = NoOp
    /\ pace = 0

NextArena ==
    \/ Allocate
    \/ Deallocate

SpecArena == InitArena /\ [][NextArena]_vars

Span(b) == b.p.addr .. (b.p.addr + align_up(b.n) - 1)

\* C3: an allocate served from the arena followed at once by the deallocate of that
\* very span puts the cursor back where it was, and the next allocate of the same
\* size returns the same address.
C3_RoundTrip ==
    /\ (last.op = "deallocate" /\ last.roundtrip /\ ~last.p.heap) =>
          /\ TheArena.cursor = last.origin
          /\ allocate(TheArena, last.n, 0).p = last.p
    /\ \A n \in Requests :
          fits(TheArena, n) =>
            LET r1 == allocate(TheArena, n, 0)
                a2 == deallocate(r1.arena, r1.p, n)
                r2 == allocate(a2, n, 0)
            IN /\ ~r1.p.heap
               /\ a2.cursor = TheArena.cursor
               /\ r2.p = r1.p

C3_Witness ==
    /\ last.op = "deallocate" /\ last.roundtrip /\ ~last.p.heap
    /\ last.n % Align # 0
    /\ last.origin > 0 /\ TheArena.cursor = last.origin
    /\ live # {}

\* C4: an allocate whose aligned span does not fit succeeds from the heap and leaves
\* the cursor alone; the spans handed out from the arena stay inside the buffer and
\* pairwise disjoint; a request that fits is served from the arena, also afterwards.
C4_Exhaustion ==
    /\ 0 <= TheArena.cursor /\ TheArena.cursor <= TheArena.cap
    /\ \A b \in live :
          /\ pointer_in_buffer(TheArena, b.p)
          /\ b.p.addr + align_up(b.n) <= TheArena.cursor
    /\ \A b, c \in live : b # c => Span(b) \cap Span(c) = {}
    /\ \A b \in heap : ~pointer_in_buffer(TheArena, b.p)
    /\ last.op = "allocate" =>
          IF last.before + align_up(last.n) <= TheArena.cap
          THEN /\ last.p = InBuffer(last.before)
               /\ TheArena.cursor = last.before + align_up(last.n)
               /\ [p |-> last.p, n |-> last.n] \in live
          ELSE /\ last.p.heap
               /\ TheArena.cursor = last.before
               /\ [p |-> last.p, n |-> last.n] \in heap

C4_Witness ==
    /\ last.op = "allocate" /\ ~last.p.heap /\ last.exhausted
    /\ heap # {} /\ Cardinality(live) >= 2

(***************************************************************************)
(* The driver: main, bench_all, bench_types, the families and               *)
(* Bencher::bench, with every functor call as one step.                    *)
(***************************************************************************)
\* lines 77-87 as a whole: REPEAT repetitions from clock reading t, each chain run
\* taking d ticks; the duration accumulated
RECURSIVE loop(_, _, _, _)
loop(j, dur, t, d) ==
    IF j < REPEAT THEN loop(j + 1, dur + ((t + d) - t), t + d, d) ELSE dur

\* faulty variant: bench stops one size short of the list
bench_more_short(s) == s < NSizes - 1

\* Bencher::bench: whether a functor call follows the one for size s
bench_more(s) == s < NSizes

\* bench_types<Benchmark, T, Types...>: Benchmark<T>::run() starts with new_graph<T>
BenchTypesRun ==
    /\ phase = "types"
    /\ at.t <= Len(Plan[at.f].types)
    /\ graphs' = new_graph(graphs, FamilyAt(at), TypeAt(at), BenchAt(at).unit)
    /\ at' = [at EXCEPT !.c = 1, !.s = 1]
    /\ phase' = "bench"
    /\ UNCHANGED << rendered, pc, i, duration, now, t0, wrapper, container, arenas, made,
                    cleans, measured, nmeasured, released, runs, live, heap, last, pace >>

\* bench_types<Benchmark>(): the end of the recursion; bench_all goes on to its next
\* family, or returns to main
BenchTypesEnd ==
    /\ phase = "types"
    /\ at.t > Len(Plan[at.f].types)
    /\ IF at.f < Len(Plan)
       THEN at' = [f |-> at.f + 1, t |-> 1, c |-> 1, s |-> 1] /\ phase' = "types"
       ELSE at' = at /\ phase' = "output"
    /\ UNCHANGED << rendered, pc, i, duration, now, t0, wrapper, container, arenas, made,
                    graphs, cleans, measured, nmeasured, released, runs, live, heap, last,
                    pace >>

\* faulty variant: the family registers a graph of its own for every Bencher it runs
FunctorCall_graphPerBench ==
    /\ phase = "bench" /\ pc = "loop" /\ i = 0
    /\ graphs' = new_result(IF at.s = 1 /\ at.c > 1
                            THEN new_graph(graphs, FamilyAt(at), TypeAt(at), BenchAt(at).unit)
                            ELSE graphs,
                            ComboAt(at).label, SizeAt(at), Mean(loop(0, 0, now, pace)))
    /\ now' = now + REPEAT * pace
    /\ made' = made + (IF ComboAt(at).wrapper = "linear" THEN REPEAT ELSE 0)
    /\ cleans' = cleans + 1
    /\ IF bench_more(at.s)
       THEN at' = [at EXCEPT !.s = at.s + 1] /\ phase' = "bench"
       ELSE IF at.c < Len(BenchAt(at).combos)
            THEN at' = [at EXCEPT !.c = at.c + 1, !.s = 1] /\ phase' = "bench"
            ELSE at' = [at EXCEPT !.t = at.t + 1, !.c = 1, !.s = 1] /\ phase' = "types"
    /\ UNCHANGED << rendered, pc, i, duration, t0, wrapper, container, arenas,
                    measured, nmeasured, released, runs, live, heap, last, pace >>

\* functor<Sizes.i>()(type), whole: the loop, new_result, clean; then the next functor
\* of bench, the next bench of the family, or the return to bench_types
FunctorCall ==
    /\ phase = "bench" /\ pc = "loop" /\ i = 0
    /\ graphs' = new_result(graphs, ComboAt(at).label, SizeAt(at),
                            Mean(loop(0, 0, now, pace)))
    /\ now' = now + REPEAT * pace
    /\ made' = made + (IF ComboAt(at).wrapper = "linear" THEN REPEAT ELSE 0)
    /\ cleans' = cleans + 1
    /\ IF bench_more(at.s)
       THEN at' = [at EXCEPT !.s = at.s + 1] /\ phase' = "bench"
       ELSE IF at.c < Len(BenchAt(at).combos)
            THEN at' = [at EXCEPT !.c = at.c + 1, !.s = 1] /\ phase' = "bench"
            ELSE at' = [at EXCEPT !.t = at.t + 1, !.c = 1, !.s = 1] /\ phase' = "types"
    /\ UNCHANGED << rendered, pc, i, duration, t0, wrapper, container, arenas,
                    measured, nmeasured, released, runs, live, heap, last, pace >>

\* main: graphs::output(graphs::Output::GOOGLE); return 0
Output ==
    /\ phase = "output"
    /\ rendered' = TRUE
    /\ phase' = "exit"
    /\ UNCHANGED << at, pc, i, duration, now, t0, wrapper, container, arenas, made,
                    graphs, cleans, measured, nmeasured, released, runs, live, heap, last,
                    pace >>

\* main is entered: nothing registered, bench_all about to run its first family
InitDriver ==
    /\ at = [f |-> 1, t |-> 1, c |-> 1, s |-> 1]
    /\ phase = "types"
    /\ FunctorEntry
    /\ now = 0
    /\ arenas = << >> /\ made = 0
    /\ graphs = << >> /\ rendered = FALSE /\ cleans = 0
    /\ live = {} /\ heap = {} /\ last = NoOp
    /\ pace \in 0..MaxDur

NextDriver ==
    \/ BenchTypesRun
    \/ BenchTypesEnd
    \/ FunctorCall
    \/ Output

SpecDriver == InitDriver /\ [][NextDriver]_vars

(***************************************************************************)
(* Properties of the driver (SpecDriver).                                  *)
(***************************************************************************)
\* the graphs whose family run is over
Finished == IF phase = "bench" THEN Len(graphs) - 1 ELSE Len(graphs)

\* the results of graph g are those of whole bench calls, one per combination of the
\* graph's family in order: for each, 10 points of that label, tagged i0..i9 in order
WholeBenches(g, n) ==
    LET b == Benchmark(g.title[1], g.title[2])
    IN /\ Len(g.results) = NSizes * n
       /\ n <= Len(b.combos)
       /\ \A k \in 1..Len(g.results) :
             /\ g.results[k].serie = b.combos[((k - 1) \div NSizes) + 1].label
             /\ g.results[k].group = b.sizes[((k - 1) % NSizes) + 1]
             /\ g.results[k].value >= 0

\* C8: each Bencher::bench(label) call submits exactly 10 points for the series
\* label, one per element of the size list in the order i0..i9, each tagged with its
\* size and none negative.
C8_TenPointsPerBench ==
    /\ phase = "bench" =>
          LET g == graphs[Len(graphs)]
              whole == [g EXCEPT !.results = SubSeq(@, 1, NSizes * (at.c - 1))]
          IN /\ Len(g.results) = NSizes * (at.c - 1) + (at.s - 1)
             /\ WholeBenches(whole, at.c - 1)
             /\ \A k \in 1..(at.s - 1) :
                   LET r == g.results[NSizes * (at.c - 1) + k]
                   IN /\ r.serie = ComboAt(at).label
                      /\ r.group = BenchAt(at).sizes[k]
                      /\ r.value >= 0
    /\ phase = "types" /\ graphs # << >> =>
          LET g == graphs[Len(graphs)]
          IN WholeBenches(g, Len(Benchmark(g.title[1], g.title[2]).combos))
    /\ phase = "exit" =>
          \A x \in 1..Len(graphs) :
             WholeBenches(graphs[x],
                          Len(Benchmark(graphs[x].title[1], graphs[x].title[2]).combos))

C8_Witness ==
    /\ phase = "bench" /\ at.f = 1 /\ at.c = 2 /\ at.s = 1
    /\ Len(graphs[Len(graphs)].results) = NSizes
    /\ graphs[Len(graphs)].results[NSizes].value > 0
    /\ graphs[Len(graphs)].results[NSizes].group = 1000000

Labels(g) == { g.results[k].serie : k \in 1..Len(g.results) }
GraphsOf(f, T) == { x \in 1..Len(graphs) : graphs[x].title = << f, T >> }

\* C9 as stated: a fill_back run for one value type registers one graph per
\* container/allocator combination of the family.
C9_GraphPerCombination ==
    \A x \in 1..Finished :
       graphs[x].title[1] = "fill_back" =>
          Cardinality(GraphsOf("fill_back", graphs[x].title[2]))
            = Len(bench_fill_back(graphs[x].title[2]).combos)

\* C9, amended: a fill_back run for one value type registers exactly one graph, and
\* that graph holds one series per combination of the family: 9 labels, 10 points each.
C9_OneGraphPerRun ==
    /\ at.f = 1 => Len(graphs) = (IF phase = "bench" THEN at.t ELSE at.t - 1)
    /\ \A x \in 1..Len(graphs) :
          graphs[x].title[1] = "fill_back" =>
             /\ GraphsOf("fill_back", graphs[x].title[2]) = {x}
             /\ x <= Finished =>
                   LET combos == bench_fill_back(graphs[x].title[2]).combos
                   IN /\ Cardinality(Labels(graphs[x])) = Len(combos)
                      /\ Labels(graphs[x]) = { combos[c].label : c \in 1..Len(combos) }
                      /\ Len(graphs[x].results) = NSizes * Len(combos)

C9_Witness ==
    /\ at.f = 1 /\ at.t = 3 /\ phase = "types"
    /\ Len(graphs) = 2
    /\ graphs[1].title = << "fill_back", "TrivialSmall" >>
    /\ Cardinality(Labels(graphs[1])) = 9

is_trivial(T) == T \in {"TrivialSmall", "TrivialMedium", "TrivialLarge", "TrivialHuge", "TrivialMonster"}
CatalogTypes == { AllTypes[k] : k \in 1..Len(AllTypes) }
FamilyNames == { Plan[k].family : k \in 1..Len(Plan) }
TwoSmallestTrivial ==
    { T \in CatalogTypes :
        /\ is_trivial(T)
        /\ Cardinality({ U \in CatalogTypes : is_trivial(U) /\ SizeOf(U) < SizeOf(T) }) < 2 }

\* C10: over a full run the number_crunching family is executed for the two smallest
\* trivial types only, with no graph and no series for any other type, and every
\* other family is executed for all eight catalogued types.
C10_CrunchingOnlyTwo ==
    /\ \A x \in 1..Len(graphs) :
          graphs[x].title[1] = "number_crunching" =>
             graphs[x].title[2] \in TwoSmallestTrivial
    /\ phase = "exit" =>
          /\ rendered
          /\ Len(AllTypes) = 8 /\ Cardinality(CatalogTypes) = 8
          /\ \A f \in FamilyNames : \A T \in CatalogTypes :
                LET ran == GraphsOf(f, T)
                IN IF f = "number_crunching" /\ T \notin TwoSmallestTrivial
                   THEN ran = {}
                   ELSE /\ Cardinality(ran) = 1
                        /\ \A x \in ran :
                              Len(graphs[x].results) = NSizes * Len(Benchmark(f, T).combos)

C10_Witness ==
    /\ phase = "exit" /\ rendered
    /\ GraphsOf("number_crunching", "TrivialMedium") # {}
    /\ GraphsOf("number_crunching", "TrivialLarge") = {}
    /\ GraphsOf("destruction", "NonTrivialArray32") # {}

(***************************************************************************)
(* Properties of one functor call (Spec).                                  *)
(***************************************************************************)
\* the point the functor has submitted, once it has
Reported == graphs[Len(graphs)].results
Linear == ComboAt(at).wrapper = "linear"
AfterReport == pc \in {"clean", "done"}

\* The functor run step by step ends where the driver's whole-functor step ends: one
\* point holding the mean, one clean, the clock advanced by the time measured, one
\* arena made per repetition of a linear combination.
FunctorSummary ==
    /\ \A d \in 0..MaxDur : loop(0, 0, now, d) = REPEAT * d
    /\ pc = "done" =>
          /\ graphs = new_result(new_graph(<< >>, FamilyAt(at), TypeAt(at), BenchAt(at).unit),
                                 ComboAt(at).label, SizeAt(at), Mean(measured))
          /\ cleans = 1
          /\ now = measured
          /\ made = (IF Linear THEN REPEAT ELSE 0)
          /\ wrapper = NoWrapper /\ container = NoContainer /\ DOMAIN arenas = {}

\* C1 as stated: the value submitted is the arithmetic mean of the 7 measured
\* durations, that is, 7 times the value is their sum.
C1_ExactMean ==
    AfterReport =>
        /\ Len(Reported) = 1
        /\ nmeasured = REPEAT
        /\ REPEAT * Reported[1].value = measured

\* C1, amended: the value submitted is the integer quotient of the sum of exactly
\* 7 measured non-negative durations by 7: the mean rounded down.
C1_TruncatedMean ==
    AfterReport =>
        /\ Len(Reported) = 1
        /\ nmeasured = REPEAT
        /\ measured >= 0
        /\ REPEAT * Reported[1].value <= measured
        /\ measured < REPEAT * (Reported[1].value + 1)

C1_Witness ==
    /\ pc = "done" /\ nmeasured = REPEAT
    /\ measured % REPEAT # 0
    /\ Len(Reported) = 1 /\ Reported[1].value >= 1
    /\ REPEAT * Reported[1].value < measured

\* C2 as stated: clean() is invoked once after each timed repetition, so whenever
\* the loop is about to test its condition as many cleans as repetitions are done.
C2_CleanPerRepetition ==
    pc = "loop" => cleans = i

\* C2, amended: clean() is invoked exactly once per functor call, that is once per
\* size and batch of 7 repetitions, after the loop and after the result is submitted.
C2_CleanPerSize ==
    /\ cleans = (IF pc = "done" THEN 1 ELSE 0)
    /\ pc = "done" => /\ nmeasured = REPEAT /\ released = REPEAT /\ Len(Reported) = 1

C2_Witness ==
    pc = "done" /\ cleans = 1 /\ runs = REPEAT /\ Len(Reported) = 1

\* C5: every repetition constructs a fresh arena (cursor at its initial position)
\* and a fresh container bound to it and destroys both at its end: at most one
\* arena is alive, and the container allocates from the arena of its own repetition.
C5_FreshPerRepetition ==
    /\ Cardinality(DOMAIN arenas) <= 1
    /\ pc \in {"loop", "clean", "done"} =>
         /\ DOMAIN arenas = {} /\ wrapper = NoWrapper /\ container = NoContainer
    /\ (Linear /\ pc \in {"make", "t0", "run", "t1", "end"}) =>
         /\ wrapper.arena = made /\ made = i + 1
         /\ DOMAIN arenas = {made}
         /\ arenas[made].rep = i
         /\ pc = "make" => arenas[made].cursor = 0
    /\ pc = "t0" => container.applied = << >>
    /\ container # NoContainer =>
         /\ container.alloc = wrapper.arena
         /\ Linear => (container.alloc \in DOMAIN arenas /\ arenas[container.alloc].rep = i)

C5_Witness ==
    /\ Linear /\ i = REPEAT - 1 /\ pc = "make"
    /\ made = REPEAT /\ DOMAIN arenas = {made} /\ arenas[made].cursor = 0

\* C6 as stated: the arena is released before the repetition's elapsed duration is
\* taken and accumulated, so every accumulated duration has its release behind it.
C6_ReleaseBeforeMeasure ==
    Linear => nmeasured <= released

\* C6, amended: the arena stays alive through the timed region and is released at the
\* end of the repetition's block, after that repetition's duration was accumulated.
C6_ReleaseAfterMeasure ==
    /\ released <= nmeasured
    /\ pc = "loop" => released = nmeasured
    /\ pc = "end" => nmeasured = released + 1
    /\ (Linear /\ pc \in {"t0", "run", "t1", "end"}) => wrapper.arena \in DOMAIN arenas

C6_Witness ==
    /\ Linear /\ pc = "end" /\ i = 1
    /\ nmeasured = 2 /\ released = 1 /\ wrapper.arena \in DOMAIN arenas

\* C7: run<P1..Pk>(container, size) invokes each policy exactly once, in list order,
\* on the one container and with the one size, and nothing else (the empty chain
\* changes nothing); the functor runs the chain exactly once per timed repetition.
C7_ChainInOrder ==
    LET chain == ComboAt(at).chain
        made0 == make(ComboAt(at).create, ComboAt(at).container, wrapper.arena)
    IN /\ pc \in {"t1", "end"} =>
            /\ container.applied =
                 [j \in 1..Len(chain) |-> [policy |-> chain[j], size |-> SizeAt(at)]]
            /\ [container EXCEPT !.applied = << >>] = made0
       /\ pc \in {"t0", "run"} => container = made0
       /\ run(<< >>, container, SizeAt(at)) = container
       /\ runs = (IF pc \in {"t1", "end"} THEN i + 1 ELSE i)
       /\ pc = "done" => runs = REPEAT

C7_Witness ==
    /\ pc = "t1" /\ i = 2 /\ runs = 3
    /\ Len(ComboAt(at).chain) = 2
    /\ container.applied = << [policy |-> "ReserveSize", size |-> SizeAt(at)],
                              [policy |-> "FillBack", size |-> SizeAt(at)] >>

\* C11: whenever a repetition holds an arena-backed wrapper, the capacity the functor
\* gave the arena is NodeSize * (N + 1000) bytes, NodeSize being sizeof(T) plus two
\* machine words, so that N + 1000 list nodes of that size fit in the arena.
C11_CapacityFromNodeSize ==
    (Linear /\ wrapper.kind = "linear") =>
       /\ TheArena.cap = NodeSize(TypeAt(at)) * (SizeAt(at) + 1000)
       /\ TheArena.cap >= align_up(NodeSize(TypeAt(at))) * (SizeAt(at) + 1000)

====
